---- MODULE Spec2Model ----
(***************************************************************************)
(* farfetch: cross-process memory transfer (user/module/farfetch/farfetch.c) *)
(*                                                                         *)
(* farfetch() is modelled as a sequence of labelled steps per calling      *)
(* thread.  The kernel services it calls (pid/task lookup, get_task_mm,    *)
(* kmalloc_array, mmap_read_lock_killable, get_user_pages_remote,          *)
(* copy_to_user/copy_from_user, put_page) are outside the module; each is  *)
(* a nondeterministic choice over the outcomes its kernel contract allows. *)
(* Word widths and the page size are scaled down; arithmetic on size_t and *)
(* unsigned long is taken modulo 2^LongBits.                               *)
(***************************************************************************)
EXTENDS Integers, Sequences, FiniteSets, TLC

\* ------------------------------------------------------------- bounds
LongBits == 6         \* width of unsigned long / size_t (scaled)
IntBits == 5          \* width of int (scaled)
PAGE_SIZE == 4        \* bytes per page (scaled)
NumPages == 4         \* pages 0..NumPages-1 of the target are mapped
MaxTargetAddr == 17   \* largest target_addr a request of Spec carries
MaxReqLen == 14       \* largest ordinary len of a request (SIZE_MAX is added)
MaxRtLen == 6         \* largest len of a request of SpecRT

\* ------------------------------------------------------------- errno
EPERM == 1
ESRCH == 3
EINTR == 4
ENOMEM == 12
EFAULT == 14
EINVAL == 22

FAR_READ == "FAR_READ"
FAR_WRITE == "FAR_WRITE"
FAR_BOGUS == "FAR_BOGUS"   \* any cmd that is neither FAR_READ nor FAR_WRITE
Commands == {FAR_READ, FAR_WRITE, FAR_BOGUS}

\* ------------------------------------------------------------- words
Word == 2 ^ LongBits
SIZE_MAX == Word - 1
INT_MAX == 2 ^ (IntBits - 1) - 1
\* MAX_RW_COUNT is INT_MAX & PAGE_MASK
MAX_RW_COUNT == INT_MAX - (INT_MAX % PAGE_SIZE)

\* unsigned long arithmetic
Wrap(x) == x % Word
\* an unsigned long read as a long (the return type of farfetch)
ToLong(x) == IF x >= Word \div 2 THEN x - Word ELSE x

Min(a, b) == IF a < b THEN a ELSE b
min3(a, b, c) == Min(a, Min(b, c))

\* ------------------------------------------------------------- window
\* line 29: page_off = target_addr & ~PAGE_MASK
PageOff(target_addr) == target_addr % PAGE_SIZE

\* line 36 without the clamp (a plausible slip: len used as passed in)
ClampLenUnclamped(page_off, len) == len

\* line 36: len = min3(len, MAX_RW_COUNT, SIZE_MAX - page_off - PAGE_SIZE + 1)
ClampLen(page_off, len) ==
    min3(len, MAX_RW_COUNT, Wrap(Wrap(Wrap(SIZE_MAX - page_off) - PAGE_SIZE) + 1))

\* line 37 rounding up from one byte too many
NrPagesOneMore(page_off, len) ==
    Wrap(Wrap(page_off + len) + PAGE_SIZE) \div PAGE_SIZE

\* line 37: nr_pages = (page_off + len + PAGE_SIZE - 1) / PAGE_SIZE
NrPages(page_off, len) ==
    Wrap(Wrap(Wrap(page_off + len) + PAGE_SIZE) - 1) \div PAGE_SIZE

\* line 38: WARN_ON(nr_pages * PAGE_SIZE < len)
WarnWindow(nr_pages, len) == Wrap(nr_pages * PAGE_SIZE) < len

\* line 84: WARN_ON((nr_pages * PAGE_SIZE) - page_off > len)
WarnRevise(nr_pages, page_off, len) ==
    Wrap(Wrap(nr_pages * PAGE_SIZE) - page_off) > len

\* line 85: len = (nr_pages * PAGE_SIZE) - page_off
ReviseLen(nr_pages, page_off) == Wrap(Wrap(nr_pages * PAGE_SIZE) - page_off)

\* line 91: to_copy = min(len - (iter - addr), PAGE_SIZE - page_off)
ToCopy(len, iter, page_off) == Min(Wrap(len - iter), Wrap(PAGE_SIZE - page_off))

\* line 126, returning the bytes copied so far in place of the error
FinalRetPartial(ret, len, iter) == IF ret # 0 /\ iter > 0 THEN iter ELSE
                                   IF ret # 0 THEN ret ELSE ToLong(len)

\* line 126: return ret ? ret : len
FinalRet(ret, len, iter) == IF ret # 0 THEN ret ELSE ToLong(len)

\* ------------------------------------------------------------- state
\* line 77: IS_ERR_VALUE(ret), for a long holding a count or a negated errno
IS_ERR_VALUE(x) == x < 0

Callers == {1, 2}

\* The target processes a request can name.  pid 1: a user process; pid 2: a
\* kernel thread (a task whose mm is NULL); pid 3: a struct pid with no task
\* attached; any other pid does not resolve at all.
TaskTable == << [task |-> TRUE,  mm |-> TRUE],
                [task |-> TRUE,  mm |-> FALSE],
                [task |-> FALSE, mm |-> FALSE] >>
Pids == DOMAIN TaskTable
TargetPids == 1 .. (Len(TaskTable) + 1)

Pages == 0 .. (NumPages - 1)
MemBytes == NumPages * PAGE_SIZE
BufIdx == 0 .. (MAX_RW_COUNT - 1)

\* Bytes are opaque values: the transfer never computes on them.  Every byte
\* of the target and of each call's local buffer starts with its own value,
\* and 0 is the byte copy_from_user() pads a faulted copy with.
MemInit == [a \in 0 .. (MemBytes - 1) |-> a + 1]
BufInit(c, callno) == [j \in BufIdx |-> 1000 * c + 100 * callno + j]

GupErrors == {EFAULT, ENOMEM}

VARIABLES
    plan,          \* per caller: the requests it has still to issue
    st,            \* per caller: the locals of its farfetch() call
    buf,           \* per caller: the local buffer behind 'addr'
    mem,           \* the bytes of the target's mapped pages
    page_ref,      \* per page: its reference count
    page_dirty,    \* per page: marked dirty
    pid_count,     \* per pid: references on the struct pid
    task_usage,    \* per pid: references on the task_struct
    mm_users,      \* per pid: references on the mm
    mmap_readers,  \* per pid: read holders of the mmap lock
    task_mm,       \* per pid: the task's mm pointer is set (it has not exited)
    gh,            \* per caller: history of the current call
    lastWrite      \* history: the last FAR_WRITE that returned a byte count

vars == << plan, st, buf, mem, page_ref, page_dirty, pid_count, task_usage,
           mm_users, mmap_readers, task_mm, gh, lastWrite >>

kernel == << mem, page_ref, page_dirty, pid_count, task_usage, mm_users,
             mmap_readers, task_mm >>

Request(cmds, pids, addrs, lens, euids) ==
    [cmd : cmds, target_pid : pids, target_addr : addrs, len : lens, euid : euids]

LocalsInit ==
    [pc |-> "idle", callno |-> 0,
     cmd |-> FAR_READ, target_pid |-> 0, target_addr |-> 0, req_len |-> 0,
     euid |-> 0, page_off |-> 0, len |-> 0, nr_pages |-> 0, pages |-> << >>,
     locked |-> 0, ret |-> 0, i |-> 0, iter |-> 0, tsk |-> 0, mm |-> 0,
     retval |-> 0]

GhostInit ==
    [pins |-> [p \in Pages |-> 0], puts |-> [p \in Pages |-> 0],
     kmallocs |-> 0, kfrees |-> 0, mmgets |-> 0, mmputs |-> 0,
     pidgets |-> 0, pidputs |-> 0, tskgets |-> 0, tskputs |-> 0,
     lookups |-> 0, locks |-> 0, unlocks |-> 0, gupdrops |-> 0,
     gup_calls |-> 0, page_count |-> 0, clamped |-> 0, actual_count |-> 0,
     warned |-> {}, mapped |-> {}, touched |-> {}, dirtied |-> {},
     fault_at |-> -1, path |-> "none"]

KernelInit ==
    /\ mem = MemInit
    /\ page_ref = [p \in Pages |-> 1]
    /\ page_dirty = [p \in Pages |-> FALSE]
    /\ pid_count = [p \in Pids |-> 1]
    /\ task_usage = [p \in Pids |-> IF TaskTable[p].task THEN 1 ELSE 0]
    /\ mm_users = [p \in Pids |-> IF TaskTable[p].mm THEN 1 ELSE 0]
    /\ mmap_readers = [p \in Pids |-> 0]
    /\ task_mm = [p \in Pids |-> TaskTable[p].mm]

CallInit ==
    /\ st = [c \in Callers |-> LocalsInit]
    /\ buf = [c \in Callers |-> BufInit(c, 0)]
    /\ gh = [c \in Callers |-> GhostInit]
    /\ lastWrite = [valid |-> FALSE, target_addr |-> 0, n |-> 0, data |-> << >>]

\* Spec: caller 1 issues one request drawn from the whole request space.
SpecRequests ==
    Request(Commands, TargetPids, 0 .. MaxTargetAddr,
            (0 .. MaxReqLen) \cup {SIZE_MAX}, {0, 1000})

Init ==
    /\ KernelInit
    /\ CallInit
    /\ \E r \in SpecRequests : plan = [c \in Callers |-> IF c = 1 THEN << r >> ELSE << >>]

\* ------------------------------------------------------------- steps
\* get_task_mm without mmget: the mm pointer used with no reference taken
GetMmNoRef(mu, p) == mu

\* line 49: get_task_mm takes a reference on the mm (mm_users + 1)
GetMmRef(mu, p) == [mu EXCEPT ![p] = @ + 1]

\* lines 56, 67, 76 with the mmput left out
PutMmLost(mu, p) == mu

\* lines 56, 67, 76: mmput(mm) drops one reference on the mm (mm_users - 1)
PutMm(mu, p) == [mu EXCEPT ![p] = @ - 1]

\* mmput of the last reference tears the address space down: every mapped
\* page loses the reference its mapping held.
DropMapping(pr, mu, p) ==
    IF mu[p] = 1 THEN [q \in Pages |-> pr[q] - 1] ELSE pr

\* mmput(mm), in the history of the call
MmPut(c, g) == [g EXCEPT !.mmputs = @ + 1]

\* line 40 with the check left out
DeniedNever(euid) == FALSE

\* line 40: from_kuid_munged(current_user_ns(), task_euid(current)) is
\* nonzero for every caller whose effective uid is not root
Denied(euid) == euid # 0

\* lines 17-41: entry, the window computation and the permission check
Call(c) ==
    /\ st[c].pc = "idle"
    /\ plan[c] # << >>
    /\ LET r == Head(plan[c])
           page_off == PageOff(r.target_addr)
           len == ClampLen(page_off, r.len)
           nr_pages == NrPages(page_off, len)
           callno == st[c].callno + 1
           denied == Denied(r.euid)
           loc == [LocalsInit EXCEPT
                      !.callno = callno, !.cmd = r.cmd,
                      !.target_pid = r.target_pid,
                      !.target_addr = r.target_addr, !.req_len = r.len,
                      !.euid = r.euid, !.page_off = page_off, !.len = len,
                      !.nr_pages = nr_pages,
                      !.pc = IF denied THEN "done" ELSE "lookup",
                      !.retval = IF denied THEN -EPERM ELSE 0]
           g == [GhostInit EXCEPT
                      !.page_count = nr_pages, !.clamped = len,
                      !.warned = IF WarnWindow(nr_pages, len) THEN {38} ELSE {},
                      !.path = IF denied THEN "eperm" ELSE "none"]
       IN /\ st' = [st EXCEPT ![c] = loc]
          /\ gh' = [gh EXCEPT ![c] = g]
          /\ buf' = [buf EXCEPT ![c] = BufInit(c, callno)]
          /\ plan' = [plan EXCEPT ![c] = Tail(@)]
    /\ UNCHANGED << kernel, lastWrite >>

\* lines 43-47: find_get_pid, get_pid_task, put_pid; -ESRCH when no task
FindTask(c) ==
    /\ st[c].pc = "lookup"
    /\ LET p == st[c].target_pid
           has_pid == p \in Pids
           has_tsk == has_pid /\ TaskTable[p].task
           g == [gh[c] EXCEPT
                    !.lookups = @ + 1,
                    !.pidgets = @ + (IF has_pid THEN 1 ELSE 0),
                    !.pidputs = @ + (IF has_pid THEN 1 ELSE 0),
                    !.tskgets = @ + (IF has_tsk THEN 1 ELSE 0),
                    !.path = IF has_tsk THEN @ ELSE "esrch"]
       IN /\ task_usage' = IF has_tsk THEN [task_usage EXCEPT ![p] = @ + 1]
                           ELSE task_usage
          /\ st' = [st EXCEPT ![c].tsk = IF has_tsk THEN p ELSE 0,
                              ![c].pc = IF has_tsk THEN "getmm" ELSE "done",
                              ![c].retval = IF has_tsk THEN 0 ELSE -ESRCH]
          /\ gh' = [gh EXCEPT ![c] = g]
    /\ UNCHANGED << plan, buf, mem, page_ref, page_dirty, pid_count, mm_users,
                    mmap_readers, task_mm, lastWrite >>

\* line 50 moved below the mm check: the task reference kept when mm is NULL
TaskPutsIfMm(has_mm) == IF has_mm THEN 1 ELSE 0

\* line 50: put_task_struct(tsk), whether or not the task has an mm
TaskPuts(has_mm) == 1

\* lines 49-52: get_task_mm, put_task_struct; -ESRCH when the task has no mm
GetMm(c) ==
    /\ st[c].pc = "getmm"
    /\ LET p == st[c].tsk
           has_mm == task_mm[p]
           g == [gh[c] EXCEPT
                    !.mmgets = @ + (IF has_mm THEN 1 ELSE 0),
                    !.tskputs = @ + TaskPuts(has_mm),
                    !.path = IF has_mm THEN @ ELSE "esrch"]
       IN /\ mm_users' = IF has_mm THEN GetMmRef(mm_users, p) ELSE mm_users
          /\ task_usage' = [task_usage EXCEPT ![p] = @ - TaskPuts(has_mm)]
          /\ st' = [st EXCEPT ![c].mm = IF has_mm THEN p ELSE 0,
                              ![c].pc = IF has_mm THEN "alloc" ELSE "done",
                              ![c].retval = IF has_mm THEN 0 ELSE -ESRCH]
          /\ gh' = [gh EXCEPT ![c] = g]
    /\ UNCHANGED << plan, buf, mem, page_ref, page_dirty, pid_count,
                    mmap_readers, task_mm, lastWrite >>

\* lines 54-58: kmalloc_array; on failure mmput and -ENOMEM.  A request for
\* zero entries yields ZERO_SIZE_PTR, which is not NULL, so it cannot fail.
AllocPages(c) ==
    /\ st[c].pc = "alloc"
    /\ \/ /\ st' = [st EXCEPT ![c].pc = "lock", ![c].pages = << >>]
          /\ gh' = [gh EXCEPT ![c].kmallocs = @ + 1]
          /\ UNCHANGED << mm_users, page_ref >>
       \/ /\ st[c].nr_pages > 0
          /\ mm_users' = PutMm(mm_users, st[c].mm)
          /\ page_ref' = DropMapping(page_ref, mm_users, st[c].mm)
          /\ st' = [st EXCEPT ![c].pc = "done", ![c].retval = -ENOMEM]
          /\ gh' = [gh EXCEPT ![c] = [MmPut(c, @) EXCEPT !.path = "enomem"]]
    /\ UNCHANGED << plan, buf, mem, page_dirty, pid_count, task_usage,
                    mmap_readers, task_mm, lastWrite >>

\* line 68 left out: the page array kept when the lock is interrupted
KfreeIntrLost(g) == g

\* line 68: kfree(pages) on the interrupted path, in the history of the call
KfreeIntr(g) == [g EXCEPT !.kfrees = @ + 1]

\* lines 65-70: locked = 1; mmap_read_lock_killable; when interrupted mmput,
\* kfree and -EINTR
LockMm(c) ==
    /\ st[c].pc = "lock"
    /\ \/ /\ mmap_readers' = [mmap_readers EXCEPT ![st[c].mm] = @ + 1]
          /\ st' = [st EXCEPT ![c].pc = "pin", ![c].locked = 1]
          /\ gh' = [gh EXCEPT ![c].locks = @ + 1]
          /\ UNCHANGED << mm_users, page_ref >>
       \/ /\ mm_users' = PutMm(mm_users, st[c].mm)
          /\ page_ref' = DropMapping(page_ref, mm_users, st[c].mm)
          /\ st' = [st EXCEPT ![c].pc = "done", ![c].locked = 1,
                              ![c].retval = -EINTR]
          /\ gh' = [gh EXCEPT ![c] = [KfreeIntr(MmPut(c, @)) EXCEPT
                                                         !.path = "eintr"]]
          /\ UNCHANGED mmap_readers
    /\ UNCHANGED << plan, buf, mem, page_dirty, pid_count, task_usage, task_mm,
                    lastWrite >>

\* The pages get_user_pages_remote can pin for a window of nr_pages pages that
\* starts in the page of target_addr: the mapped pages from there on, up to
\* the first hole.
FirstPage(target_addr) == target_addr \div PAGE_SIZE
Pinnable(target_addr, nr_pages) ==
    IF FirstPage(target_addr) >= NumPages THEN 0
    ELSE Min(nr_pages, NumPages - FirstPage(target_addr))

\* lines 71-73: get_user_pages_remote(mm, target_addr, nr_pages, ..., pages,
\* NULL, &locked).  It returns 0 for nr_pages == 0; otherwise a negated errno
\* with nothing pinned, or the number k of pages it pinned, which may be
\* fewer than asked for (a hole, a fault it could not service, a retry it
\* gave up).  It may return with the mmap lock dropped (locked == 0).
PinPages(c) ==
    /\ st[c].pc = "pin"
    /\ LET first == FirstPage(st[c].target_addr)
           nr == st[c].nr_pages
       IN \/ /\ nr = 0
             /\ st' = [st EXCEPT ![c].pc = "unlock", ![c].ret = 0]
             /\ gh' = [gh EXCEPT ![c].gup_calls = @ + 1, ![c].actual_count = 0]
             /\ UNCHANGED << page_ref, mmap_readers >>
          \/ /\ nr > 0
             /\ \E k \in 0 .. Pinnable(st[c].target_addr, nr), lk \in {0, 1} :
                  LET got == [j \in 1 .. k |-> first + j - 1]
                  IN /\ page_ref' = [p \in Pages |->
                                       IF p >= first /\ p < first + k
                                       THEN page_ref[p] + 1 ELSE page_ref[p]]
                     /\ mmap_readers' = [mmap_readers EXCEPT ![st[c].mm] = @ - (1 - lk)]
                     /\ st' = [st EXCEPT ![c].pc = "unlock", ![c].ret = k,
                                         ![c].pages = got, ![c].locked = lk]
                     /\ gh' = [gh EXCEPT
                                 ![c].gup_calls = @ + 1,
                                 ![c].actual_count = k,
                                 ![c].gupdrops = @ + (1 - lk),
                                 ![c].pins = [p \in Pages |->
                                       IF p >= first /\ p < first + k
                                       THEN @[p] + 1 ELSE @[p]]]
          \/ /\ nr > 0
             /\ \E e \in GupErrors, lk \in {0, 1} :
                  /\ mmap_readers' = [mmap_readers EXCEPT ![st[c].mm] = @ - (1 - lk)]
                  /\ st' = [st EXCEPT ![c].pc = "unlock", ![c].ret = -e,
                                      ![c].locked = lk]
                  /\ gh' = [gh EXCEPT ![c].gup_calls = @ + 1,
                                      ![c].gupdrops = @ + (1 - lk)]
             /\ UNCHANGED page_ref
    /\ UNCHANGED << plan, buf, mem, page_dirty, pid_count, task_usage, mm_users,
                    task_mm, lastWrite >>

\* line 74 with the test left out: the lock is always unlocked
StillLockedAlways(locked) == TRUE

\* line 74: if (locked), the flag get_user_pages_remote clears when it has
\* dropped the lock itself
StillLocked(locked) == locked # 0

\* lines 74-76: if (locked) mmap_read_unlock(mm); mmput(mm)
UnlockPut(c) ==
    /\ st[c].pc = "unlock"
    /\ LET held == StillLocked(st[c].locked)
       IN /\ mmap_readers' = IF held THEN [mmap_readers EXCEPT ![st[c].mm] = @ - 1]
                             ELSE mmap_readers
          /\ mm_users' = PutMm(mm_users, st[c].mm)
          /\ page_ref' = DropMapping(page_ref, mm_users, st[c].mm)
          /\ gh' = [gh EXCEPT ![c] = [MmPut(c, @) EXCEPT
                                        !.unlocks = @ + (IF held THEN 1 ELSE 0)]]
          /\ st' = [st EXCEPT ![c].pc = "check"]
    /\ UNCHANGED << plan, buf, mem, page_dirty, pid_count, task_usage, task_mm,
                    lastWrite >>

\* lines 77-89: a pin error frees the array and is returned as it is; a short
\* pin count revises nr_pages and len; then ret = 0, iter = addr
CheckPin(c) ==
    /\ st[c].pc = "check"
    /\ IF IS_ERR_VALUE(st[c].ret)
       THEN /\ st' = [st EXCEPT ![c].pc = "done", ![c].retval = st[c].ret]
            /\ gh' = [gh EXCEPT ![c].kfrees = @ + 1, ![c].path = "pinerr"]
       ELSE LET short == st[c].ret < st[c].nr_pages
                nr == IF short THEN st[c].ret ELSE st[c].nr_pages
                warn == short /\ WarnRevise(nr, st[c].page_off, st[c].len)
                len == IF short THEN ReviseLen(nr, st[c].page_off) ELSE st[c].len
            IN /\ st' = [st EXCEPT ![c].pc = "loop", ![c].nr_pages = nr,
                                   ![c].len = len, ![c].ret = 0, ![c].iter = 0,
                                   ![c].i = 0]
               /\ gh' = [gh EXCEPT ![c].warned = IF warn THEN @ \cup {84} ELSE @,
                                   ![c].path = IF short THEN "partial" ELSE "full"]
    /\ UNCHANGED << plan, buf, kernel, lastWrite >>

\* ------------------------------------------------------------- transfer
\* The address of byte 'off' of page 'page' in the target's memory
PageByte(page, off) == page * PAGE_SIZE + off

\* line 100 reading every byte from the start of the mapped page
ReadSrcNoOff(page, page_off, j) == PageByte(page, j)

\* line 100: the source of byte j of the copy is kmap(pages[i]) + page_off + j
ReadSrc(page, page_off, j) == PageByte(page, page_off + j)

\* line 105 without page_off: the copy lands at the start of the page
WriteDstNoOff(page, page_off, j) == PageByte(page, j)

\* line 105: the destination of byte j is kmap(pages[i]) + page_off + j
WriteDst(page, page_off, j) == PageByte(page, page_off + j)

\* line 117 left out: the leading offset carried into the next page
NextPageOffKept(page_off) == page_off

\* line 117: page_off = 0
NextPageOff(page_off) == 0

\* copy_to_user(iter, kmap(page) + page_off, n): the first 'done' bytes arrive
CopyToUser(b, iter, page, page_off, done) ==
    [j \in BufIdx |-> IF j >= iter /\ j < iter + done
                      THEN mem[ReadSrc(page, page_off, j - iter)] ELSE b[j]]

\* copy_from_user(kmap(page) + page_off, iter, n): the first 'done' bytes
\* arrive and the n - done bytes it could not read are zeroed
CopyFromUser(m, b, iter, page, page_off, n, done) ==
    [a \in DOMAIN m |->
        IF \E j \in 0 .. (n - 1) : a = WriteDst(page, page_off, j)
        THEN LET j == CHOOSE k \in 0 .. (n - 1) : a = WriteDst(page, page_off, k)
             IN IF j < done THEN b[iter + j] ELSE 0
        ELSE m[a]]

\* The bytes of one page's copy: local-buffer index, page index, in-page offset
Touches(iter, i, page_off, done) ==
    { << iter + j, i, page_off + j >> : j \in 0 .. (done - 1) }

\* A FAR_WRITE that changes target bytes ends the standing of the last write
\* when the two ranges overlap.
Overlaps(page, page_off, n) ==
    /\ lastWrite.valid
    /\ \E j \in 0 .. (n - 1) :
          /\ PageByte(page, page_off + j) >= lastWrite.target_addr
          /\ PageByte(page, page_off + j) < lastWrite.target_addr + lastWrite.n

\* lines 114-115 left out: the loop goes on after a failure
BreaksNever(ret) == FALSE

\* lines 114-115: if (ret) break
Breaks(ret) == ret # 0

\* line 108 left out: a written page never marked dirty
SetPageDirtyLost(pd, page) == pd

\* line 108: set_page_dirty_lock(pages[i])
SetPageDirty(pd, page) == [pd EXCEPT ![page] = TRUE]

\* lines 90-119, one iteration of the transfer loop (i < nr_pages).  A copy
\* of n > 0 bytes may fault after any number done < n of bytes.
CopyPage(c) ==
    /\ st[c].pc = "loop"
    /\ st[c].i < st[c].nr_pages
    /\ LET l == st[c]
           page == l.pages[l.i + 1]
           to_copy == ToCopy(l.len, l.iter, l.page_off)
           next == [l EXCEPT !.page_off = NextPageOff(l.page_off),
                             !.iter = l.iter + to_copy, !.i = l.i + 1]
           stop(e) == IF Breaks(e)
                      THEN [l EXCEPT !.ret = e, !.pc = "release", !.i = 0]
                      ELSE [next EXCEPT !.ret = e]
       IN \/ /\ l.cmd = FAR_READ
             /\ \/ /\ buf' = [buf EXCEPT ![c] =
                                 CopyToUser(@, l.iter, page, l.page_off, to_copy)]
                   /\ st' = [st EXCEPT ![c] = next]
                   /\ gh' = [gh EXCEPT
                               ![c].mapped = @ \cup {l.i},
                               ![c].touched = @ \cup Touches(l.iter, l.i, l.page_off, to_copy)]
                \/ /\ to_copy > 0
                   /\ \E done \in 0 .. (to_copy - 1) :
                        /\ buf' = [buf EXCEPT ![c] =
                                     CopyToUser(@, l.iter, page, l.page_off, done)]
                        /\ gh' = [gh EXCEPT
                                    ![c].mapped = @ \cup {l.i},
                                    ![c].touched = @ \cup Touches(l.iter, l.i, l.page_off, done),
                                    ![c].fault_at = l.i,
                                    ![c].path = "efault"]
                   /\ st' = [st EXCEPT ![c] = stop(-EFAULT)]
             /\ UNCHANGED << mem, page_dirty, lastWrite >>
          \/ /\ l.cmd = FAR_WRITE
             /\ \/ /\ mem' = CopyFromUser(mem, buf[c], l.iter, page, l.page_off,
                                          to_copy, to_copy)
                   /\ page_dirty' = SetPageDirty(page_dirty, page)
                   /\ st' = [st EXCEPT ![c] = next]
                   /\ gh' = [gh EXCEPT
                               ![c].mapped = @ \cup {l.i},
                               ![c].dirtied = @ \cup {l.i},
                               ![c].touched = @ \cup Touches(l.iter, l.i, l.page_off, to_copy)]
                \/ /\ to_copy > 0
                   /\ \E done \in 0 .. (to_copy - 1) :
                        /\ mem' = CopyFromUser(mem, buf[c], l.iter, page,
                                               l.page_off, to_copy, done)
                        /\ gh' = [gh EXCEPT
                                    ![c].mapped = @ \cup {l.i},
                                    ![c].touched = @ \cup Touches(l.iter, l.i, l.page_off, done),
                                    ![c].fault_at = l.i,
                                    ![c].path = "efault"]
                   /\ st' = [st EXCEPT ![c] = stop(-EFAULT)]
                   /\ UNCHANGED page_dirty
             /\ lastWrite' = IF Overlaps(page, l.page_off, to_copy)
                             THEN [lastWrite EXCEPT !.valid = FALSE] ELSE lastWrite
             /\ UNCHANGED buf
          \/ /\ l.cmd \notin {FAR_READ, FAR_WRITE}
             /\ st' = [st EXCEPT ![c] = stop(-EINVAL)]
             /\ gh' = [gh EXCEPT ![c].path = "einval"]
             /\ UNCHANGED << buf, mem, page_dirty, lastWrite >>
    /\ UNCHANGED << plan, page_ref, pid_count, task_usage, mm_users, mmap_readers,
                    task_mm >>

\* lines 90 and 120: the loop ends with i == nr_pages;
\* WARN_ON(!ret && iter - addr != len)
LoopExit(c) ==
    /\ st[c].pc = "loop"
    /\ ~ (st[c].i < st[c].nr_pages)
    /\ st' = [st EXCEPT ![c].pc = "release", ![c].i = 0]
    /\ gh' = [gh EXCEPT ![c].warned =
                 IF st[c].ret = 0 /\ st[c].iter # st[c].len THEN @ \cup {120} ELSE @]
    /\ UNCHANGED << plan, buf, kernel, lastWrite >>

\* line 122 stopping one page short
PutMoreShort(i, nr_pages) == i + 1 < nr_pages

\* line 122: for (i = 0; i < nr_pages; ++i)
PutMore(i, nr_pages) == i < nr_pages

\* line 123 releasing the first page every time
PutTargetFirst(pages, i) == pages[1]

\* line 123: the page put_page is given, pages[i] (sequences start at 1)
PutTarget(pages, i) == pages[i + 1]

\* lines 122-123: put_page(pages[i])
PutPage(c) ==
    /\ st[c].pc = "release"
    /\ PutMore(st[c].i, st[c].nr_pages)
    /\ LET page == PutTarget(st[c].pages, st[c].i)
       IN /\ page_ref' = [page_ref EXCEPT ![page] = @ - 1]
          /\ gh' = [gh EXCEPT ![c].puts[page] = @ + 1]
          /\ st' = [st EXCEPT ![c].i = @ + 1]
    /\ UNCHANGED << plan, buf, mem, page_dirty, pid_count, task_usage, mm_users,
                    mmap_readers, task_mm, lastWrite >>

\* lines 124-126: kfree(pages); return ret ? ret : len
FreeReturn(c) ==
    /\ st[c].pc = "release"
    /\ ~ PutMore(st[c].i, st[c].nr_pages)
    /\ st' = [st EXCEPT ![c].pc = "done",
                        ![c].retval = FinalRet(st[c].ret, st[c].len, st[c].iter)]
    /\ gh' = [gh EXCEPT ![c].kfrees = @ + 1]
    /\ UNCHANGED << plan, buf, kernel, lastWrite >>

\* The call has returned to its caller, which may issue its next request.  A
\* FAR_WRITE that returned a byte count becomes the last write on record.
Finish(c) ==
    /\ st[c].pc = "done"
    /\ st' = [st EXCEPT ![c].pc = "idle"]
    /\ lastWrite' =
         IF st[c].cmd = FAR_WRITE /\ st[c].retval > 0
         THEN [valid |-> TRUE, target_addr |-> st[c].target_addr,
               n |-> st[c].retval,
               data |-> [j \in 1 .. st[c].retval |-> buf[c][j - 1]]]
         ELSE lastWrite
    /\ UNCHANGED << plan, buf, kernel, gh >>

Next ==
    \E c \in Callers :
        \/ Call(c)
        \/ FindTask(c)
        \/ GetMm(c)
        \/ AllocPages(c)
        \/ LockMm(c)
        \/ PinPages(c)
        \/ UnlockPut(c)
        \/ CheckPin(c)
        \/ CopyPage(c)
        \/ LoopExit(c)
        \/ PutPage(c)
        \/ FreeReturn(c)
        \/ Finish(c)

Spec == Init /\ [][Next]_vars

\* SpecWide: one FAR_READ by a privileged caller against the user process,
\* with target_addr and len drawn from the whole range of the machine word.
WideRequests ==
    Request({FAR_READ}, {1}, 0 .. SIZE_MAX, 0 .. SIZE_MAX, {0})

InitWide ==
    /\ KernelInit
    /\ CallInit
    /\ \E r \in WideRequests : plan = [c \in Callers |-> IF c = 1 THEN << r >> ELSE << >>]

SpecWide == InitWide /\ [][Next]_vars

\* SpecRT: caller 1 issues a FAR_WRITE and then a FAR_READ at the same or the
\* next address, each of 1..MaxRtLen bytes, starting anywhere in page 0.
RtWrites == Request({FAR_WRITE}, {1}, 0 .. (PAGE_SIZE - 1), 1 .. MaxRtLen, {0})
RtReads(w) ==
    Request({FAR_READ}, {1}, {w.target_addr, w.target_addr + 1}, 1 .. MaxRtLen, {0})

InitRT ==
    /\ KernelInit
    /\ CallInit
    /\ \E w \in RtWrites : \E r \in RtReads(w) :
          plan = [c \in Callers |-> IF c = 1 THEN << w, r >> ELSE << >>]

SpecRT == InitRT /\ [][Next]_vars

\* ------------------------------------------------------------- history
\* The call of caller c has returned (and no later call has started).
Returned(c) == st[c].callno > 0 /\ st[c].pc \in {"done", "idle"}

\* The call of caller c is under way or has returned.
Called(c) == st[c].callno > 0

RECURSIVE SumOver(_, _)
SumOver(f, S) ==
    IF S = {} THEN 0
    ELSE LET x == CHOOSE y \in S : TRUE IN f[x] + SumOver(f, S \ {x})

\* The pins caller c holds on page p
Held(c, p) == gh[c].pins[p] - gh[c].puts[p]

NoPins(c) == \A p \in Pages : gh[c].pins[p] = 0

\* The paths of a call on which farfetch() had the page array and asked
\* get_user_pages_remote for pages
PinPaths == {"full", "partial", "einval", "efault", "pinerr"}

\* ------------------------------------------------------------- claims
\* C1: on every exit path of farfetch every page pinned for the call is
\* released by put_page exactly once, no page that was not pinned is released,
\* the page array is freed exactly once, and a call that has returned holds
\* no pin: page reference counts are back to what the other calls hold.
C1_PinsReleased ==
    \A c \in Callers :
        /\ \A p \in Pages : /\ gh[c].pins[p] <= 1
                            /\ gh[c].puts[p] <= gh[c].pins[p]
        /\ gh[c].kfrees <= gh[c].kmallocs
        /\ gh[c].kmallocs <= 1
        /\ \A p \in Pages : page_ref[p] = 1 + SumOver([d \in Callers |-> Held(d, p)], Callers)
        /\ Returned(c) =>
              /\ \A p \in Pages : gh[c].puts[p] = gh[c].pins[p]
              /\ gh[c].kfrees = gh[c].kmallocs
              /\ gh[c].path \in PinPaths => gh[c].kfrees = 1

\* C1 witness: a call that pinned fewer pages than it asked for, at least
\* two, has returned.
C1_Witness ==
    \E c \in Callers :
        /\ Returned(c)
        /\ gh[c].path = "partial"
        /\ gh[c].actual_count >= 2
        /\ gh[c].kfrees = 1
        /\ \E p \in Pages : gh[c].puts[p] = 1

\* C2: when copy_to_user or copy_from_user fails on page k, for any k,
\* farfetch returns -EFAULT and not a byte count, and every page pinned for
\* the call is released exactly once.
C2_FaultReturnsEfault ==
    \A c \in Callers :
        (Returned(c) /\ gh[c].fault_at >= 0) =>
            /\ st[c].retval = -EFAULT
            /\ \A p \in Pages : /\ gh[c].puts[p] = gh[c].pins[p]
                                /\ gh[c].pins[p] <= 1
            /\ \A j \in 1 .. Len(st[c].pages) : gh[c].puts[st[c].pages[j]] = 1

\* C2 witness: the copy faulted on a page after the first, with bytes of
\* earlier pages already copied, and the call has returned.
C2_Witness ==
    \E c \in Callers :
        /\ Returned(c)
        /\ gh[c].fault_at >= 1
        /\ st[c].iter > 0
        /\ st[c].cmd = FAR_READ

\* What a call has acquired so far: lookups, references, the page array, the
\* mmap lock, pins
NothingAcquired(c) ==
    /\ gh[c].lookups = 0
    /\ gh[c].pidgets = 0
    /\ gh[c].tskgets = 0
    /\ gh[c].mmgets = 0
    /\ gh[c].kmallocs = 0
    /\ gh[c].locks = 0
    /\ gh[c].gup_calls = 0
    /\ NoPins(c)

\* The target of the call resolves to a task that has an address space.
Resolves(c) ==
    /\ st[c].target_pid \in Pids
    /\ TaskTable[st[c].target_pid].task
    /\ TaskTable[st[c].target_pid].mm

\* C3: if pinning obtains actual_count < page_count pages, for every
\* actual_count in [0, page_count) and every leading offset, the byte count
\* farfetch returns is exactly actual_count * PAGE_SIZE - leading_offset, it
\* does not exceed the requested length, and the loop touches no byte beyond
\* the last pinned page.
C3_PartialPinReturn ==
    \A c \in Callers :
        (Returned(c) /\ gh[c].path = "partial") =>
            LET k == gh[c].actual_count
                off == PageOff(st[c].target_addr)
            IN /\ st[c].len = k * PAGE_SIZE - off
               /\ st[c].len <= st[c].req_len
               /\ st[c].retval = st[c].len
               /\ \A t \in gh[c].touched : t[2] < k /\ t[3] < PAGE_SIZE

\* C4: a caller whose effective uid is not root always receives -EPERM,
\* whatever the command, pid, address and length, and nothing has been looked
\* up, referenced, allocated, locked or pinned.
C4_NonRootDenied ==
    \A c \in Callers :
        (Called(c) /\ st[c].euid # 0) =>
            /\ Returned(c)
            /\ st[c].retval = -EPERM
            /\ NothingAcquired(c)
            /\ gh[c].mmputs = 0 /\ gh[c].kfrees = 0 /\ gh[c].unlocks = 0
            /\ gh[c].touched = {} /\ gh[c].mapped = {}

\* C4 witness: a FAR_WRITE by a non-root caller against the user process has
\* returned.
C4_Witness ==
    \E c \in Callers :
        /\ Returned(c)
        /\ st[c].euid # 0
        /\ st[c].cmd = FAR_WRITE
        /\ Resolves(c)
        /\ st[c].req_len > 0
        /\ st[c].retval = -EPERM

\* C5: a request (of a privileged caller: the permission check comes first)
\* whose pid does not resolve to a task, or resolves to a task with no address
\* space, returns -ESRCH; no page array is allocated, no lock taken, no page
\* pinned, and every pid and task reference taken by the lookup is released
\* exactly once.
C5_UnresolvedPid ==
    \A c \in Callers :
        (Called(c) /\ st[c].euid = 0 /\ ~ Resolves(c)) =>
            /\ st[c].pc \in {"lookup", "getmm", "done", "idle"}
            /\ gh[c].kmallocs = 0 /\ gh[c].locks = 0 /\ gh[c].gup_calls = 0
            /\ gh[c].mmgets = 0 /\ NoPins(c)
            /\ gh[c].pidgets <= 1 /\ gh[c].tskgets <= 1
            /\ Returned(c) =>
                  /\ st[c].retval = -ESRCH
                  /\ gh[c].pidputs = gh[c].pidgets
                  /\ gh[c].tskputs = gh[c].tskgets
                  /\ gh[c].pidgets = (IF st[c].target_pid \in Pids THEN 1 ELSE 0)
                  /\ \A d \in Callers \ {c} : st[d].pc \in {"idle", "done"}
                        => task_usage = [p \in Pids |-> IF TaskTable[p].task THEN 1 ELSE 0]

\* C5 witness: a request against the kernel thread (a task with no mm) has
\* returned, its task reference taken and dropped.
C5_Witness ==
    \E c \in Callers :
        /\ Returned(c)
        /\ st[c].euid = 0
        /\ st[c].target_pid \in Pids
        /\ TaskTable[st[c].target_pid].task
        /\ ~ TaskTable[st[c].target_pid].mm
        /\ gh[c].tskgets = 1
        /\ gh[c].tskputs = 1

\* C6: a request whose command is neither FAR_READ nor FAR_WRITE returns
\* -EINVAL, for every pid, address and length, before any resource is
\* acquired: before the process lookup, the page array allocation, the mmap
\* lock and any pin.
C6_BogusCmdRejectedFirst ==
    \A c \in Callers :
        (Called(c) /\ st[c].euid = 0 /\ st[c].cmd \notin {FAR_READ, FAR_WRITE}) =>
            /\ NothingAcquired(c)
            /\ Returned(c) => st[c].retval = -EINVAL

\* C7 as stated: every request with len == 0 (of a privileged caller, the
\* target resolving), for every target address, page-aligned or not, pins no
\* page and, unless the allocation or the lock acquisition fails first,
\* returns 0.
C7_ZeroLenNoPin ==
    \A c \in Callers :
        (Called(c) /\ st[c].euid = 0 /\ Resolves(c) /\ st[c].req_len = 0) =>
            /\ NoPins(c)
            /\ Returned(c) => st[c].retval \in {0, -ENOMEM, -EINTR}

\* C7 as amended: a request with len == 0 and a page-aligned target address
\* has an empty window; no page is pinned, and the call returns 0 unless the
\* permission check, the lookup, the allocation or the lock acquisition fails
\* first.  When the target address is not page-aligned the window is one
\* page, which get_user_pages_remote is asked to pin, and no byte is copied.
C7_ZeroLenAligned ==
    \A c \in Callers :
        (Called(c) /\ st[c].req_len = 0) =>
            /\ gh[c].touched = {}
            /\ gh[c].clamped = 0
            /\ PageOff(st[c].target_addr) = 0 =>
                  /\ gh[c].page_count = 0
                  /\ NoPins(c)
                  /\ Returned(c) =>
                        st[c].retval \in {0, -EPERM, -ESRCH, -ENOMEM, -EINTR}
                  /\ (Returned(c) /\ gh[c].gup_calls = 1) => st[c].retval = 0
            /\ PageOff(st[c].target_addr) # 0 =>
                  /\ gh[c].page_count = 1
                  /\ \A p \in Pages :
                        gh[c].pins[p] > 0 => p = FirstPage(st[c].target_addr)

\* C7 witness: a request with len == 0 at a page-aligned address went
\* through the pin step and returned 0.
C7_Witness ==
    \E c \in Callers :
        /\ Returned(c)
        /\ st[c].req_len = 0
        /\ PageOff(st[c].target_addr) = 0
        /\ gh[c].gup_calls = 1
        /\ st[c].retval = 0
        /\ st[c].cmd = FAR_WRITE

\* C8: for every target_addr and every len up to the largest machine word,
\* with arithmetic modulo 2^LongBits, the window computed at the top of
\* farfetch has nr_pages * PAGE_SIZE >= page_off + clamped len; neither the
\* sum page_off + len + PAGE_SIZE - 1 nor the product nr_pages * PAGE_SIZE
\* wraps around, and the WARN_ON of line 38 does not fire.
C8_WindowNoOverflow ==
    \A c \in Callers :
        Called(c) =>
            LET off == PageOff(st[c].target_addr)
                len == gh[c].clamped
                nr == gh[c].page_count
            IN /\ len <= st[c].req_len
               /\ off + len + PAGE_SIZE - 1 <= SIZE_MAX
               /\ nr * PAGE_SIZE <= SIZE_MAX
               /\ nr = (off + len + PAGE_SIZE - 1) \div PAGE_SIZE
               /\ nr * PAGE_SIZE >= off + len
               /\ 38 \notin gh[c].warned

\* C8 witness: a request at the last byte of the address range, with the
\* largest len, has had its window computed.
C8_Witness ==
    \E c \in Callers :
        /\ Called(c)
        /\ st[c].target_addr = SIZE_MAX
        /\ st[c].req_len = SIZE_MAX
        /\ gh[c].clamped = MAX_RW_COUNT
        /\ gh[c].page_count = NrPages(PAGE_SIZE - 1, MAX_RW_COUNT)

\* The bytes a transfer of len bytes at target_addr is to touch: byte i of
\* the local buffer, page index and in-page offset of target_addr + i
Expected(target_addr, len) ==
    { << i, ((target_addr + i) \div PAGE_SIZE) - (target_addr \div PAGE_SIZE),
            (target_addr + i) % PAGE_SIZE >> : i \in 0 .. (len - 1) }

\* C9: in a successful transfer with all pages pinned, byte i of the local
\* buffer, for every i < clamped len, is copied to or from pinned page
\* (target_addr + i) / PAGE_SIZE - target_addr / PAGE_SIZE at in-page offset
\* (target_addr + i) mod PAGE_SIZE, and no other byte is copied: the leading
\* offset applies to the first page only.
C9_ByteToPageSplit ==
    \A c \in Callers :
        (Returned(c) /\ gh[c].path = "full") =>
            LET ta == st[c].target_addr
                len == gh[c].clamped
            IN /\ st[c].retval = len
               /\ gh[c].touched = Expected(ta, len)
               /\ \A t \in gh[c].touched :
                     t[2] > 0 => t[3] = t[1] - (PAGE_SIZE - PageOff(ta)) - (t[2] - 1) * PAGE_SIZE
               /\ st[c].callno = 1 =>
                     \A i \in 0 .. (len - 1) :
                        /\ buf[c][i] = mem[ta + i]
                        /\ st[c].cmd = FAR_READ => buf[c][i] = MemInit[ta + i]
                        /\ st[c].cmd = FAR_WRITE => mem[ta + i] = BufInit(c, 1)[i]

\* C9 witness: a FAR_WRITE that starts mid-page and spans three pages or
\* more, all pinned, has returned its full length.
C9_Witness ==
    \E c \in Callers :
        /\ Returned(c)
        /\ gh[c].path = "full"
        /\ st[c].cmd = FAR_WRITE
        /\ PageOff(st[c].target_addr) > 0
        /\ gh[c].page_count >= 3
        /\ st[c].retval = gh[c].clamped
        /\ Cardinality(gh[c].touched) > 2 * PAGE_SIZE

\* The call of caller c is a FAR_READ that returned all n bytes of the last
\* write on record, from the address that write went to.
ReadBack(c) ==
    /\ Returned(c)
    /\ st[c].cmd = FAR_READ
    /\ lastWrite.valid
    /\ st[c].target_addr = lastWrite.target_addr
    /\ st[c].req_len = lastWrite.n
    /\ st[c].retval = lastWrite.n

\* C10: round trip.  A FAR_WRITE that returned n followed, with no other
\* write to that range in between, by a FAR_READ of the same address and
\* length that returns n leaves in the local buffer the n bytes that were
\* written.
C10_RoundTrip ==
    \A c \in Callers :
        ReadBack(c) =>
            \A j \in 0 .. (lastWrite.n - 1) : buf[c][j] = lastWrite.data[j + 1]

\* C10 witness: a round trip that starts mid-page and crosses a page
\* boundary.
C10_Witness ==
    \E c \in Callers :
        /\ ReadBack(c)
        /\ PageOff(st[c].target_addr) > 0
        /\ PageOff(st[c].target_addr) + lastWrite.n > PAGE_SIZE
        /\ st[c].callno = 2


\* The call of caller c went through the transfer loop and left it with
\* ret == 0, so that line 126 returns len.
ReturnedNoError(c) == Returned(c) /\ gh[c].path \in {"full", "partial"}

\* C11: whenever farfetch returns without error, the value returned equals
\* the number of bytes the transfer loop copied, which equals the (possibly
\* revised) clamped length, and the check of line 120 has not fired, for
\* every leading offset, length and pin count.
C11_ReturnIsBytesCopied ==
    \A c \in Callers :
        ReturnedNoError(c) =>
            /\ st[c].retval = st[c].iter
            /\ st[c].iter = st[c].len
            /\ Cardinality(gh[c].touched) = st[c].iter
            /\ 120 \notin gh[c].warned


\* ------------------------------------------------------------- C12
\* The steps of a call that use the mm pointer: lines 66, 71-73, 75
UsesMm == {"lock", "pin", "unlock"}

\* The references on the mm of pid p that calls still own
MmRefsOwned(p) ==
    SumOver([c \in Callers |->
                IF st[c].mm = p THEN gh[c].mmgets - gh[c].mmputs ELSE 0], Callers)

\* C12: after get_task_mm succeeds the mm reference is dropped by mmput
\* exactly once on every path (allocation failure, interrupted lock, pin
\* error, partial pin, full pin); no step that uses the mm runs after the
\* mmput; and the mmput has happened when the pin result is examined, so
\* the transfer loop and the page release run without the reference.  The
\* kernel's count of users of the mm is its own reference plus the
\* references calls still own.
C12_MmPutOnce ==
    /\ \A c \in Callers :
        /\ gh[c].mmgets <= 1
        /\ gh[c].mmputs <= gh[c].mmgets
        /\ st[c].pc \in ({"alloc"} \cup UsesMm) =>
               gh[c].mmgets = 1 /\ gh[c].mmputs = 0
        /\ st[c].pc \in {"check", "loop", "release"} =>
               gh[c].mmgets = 1 /\ gh[c].mmputs = 1
        /\ Returned(c) => gh[c].mmputs = gh[c].mmgets
        /\ Returned(c) /\ gh[c].path \in (PinPaths \cup {"enomem", "eintr"}) =>
               gh[c].mmgets = 1 /\ gh[c].mmputs = 1
    /\ \A p \in Pids :
        mm_users[p] = (IF task_mm[p] THEN 1 ELSE 0) + MmRefsOwned(p)

\* A transfer loop running after a short pin, the mm reference already gone
C12_Witness ==
    \E c \in Callers :
        /\ st[c].pc = "loop"
        /\ gh[c].path = "partial"
        /\ gh[c].mmgets = 1
        /\ gh[c].mmputs = 1
        /\ mm_users[st[c].mm] = 1


\* ------------------------------------------------------------- C13
\* 1 while call c holds the mmap read lock it took, 0 otherwise
LockHeld(c) == gh[c].locks - gh[c].unlocks - gh[c].gupdrops

\* C13: a call holds the target's mmap read lock only around the pin step.
\* The lock is taken after the mm is resolved; it is held when
\* get_user_pages_remote is entered; it is not held before the lock step,
\* during the transfer loop, during the page release or at return; farfetch
\* unlocks it exactly when get_user_pages_remote left it locked, so the
\* lock is released once, by one of the two, and the readers of the mm's
\* lock are exactly the calls that hold it.
C13_LockOnlyAroundPin ==
    /\ \A c \in Callers :
        /\ LockHeld(c) \in {0, 1}
        /\ gh[c].locks <= gh[c].mmgets
        /\ LockHeld(c) = 1 => st[c].pc \in {"pin", "unlock"}
        /\ st[c].pc = "pin" => LockHeld(c) = 1
        /\ st[c].pc = "unlock" => LockHeld(c) = st[c].locked
        /\ st[c].pc \in {"check", "loop", "release"} =>
               /\ gh[c].locks = 1
               /\ gh[c].unlocks + gh[c].gupdrops = 1
        /\ Returned(c) => LockHeld(c) = 0
    /\ \A p \in Pids :
        mmap_readers[p] =
            SumOver([c \in Callers |-> IF st[c].mm = p THEN LockHeld(c) ELSE 0],
                    Callers)

\* A transfer loop running after get_user_pages_remote dropped the lock
\* itself: farfetch did not unlock it a second time
C13_Witness ==
    \E c \in Callers :
        /\ st[c].pc = "loop"
        /\ st[c].locked = 0
        /\ gh[c].gupdrops = 1
        /\ gh[c].unlocks = 0
        /\ mmap_readers[st[c].mm] = 0


\* ------------------------------------------------------------- SpecConc
\* SpecConc: both callers issue one transfer each against pid 1, on
\* overlapping pages, and pid 1 may exit at any point in between.
MaxConcLen == 2       \* largest len of a request of SpecConc

ConcRequests ==
    Request({FAR_READ, FAR_WRITE}, {1}, {PAGE_SIZE - 1}, 1 .. MaxConcLen, {0})

InitConc ==
    /\ KernelInit
    /\ CallInit
    /\ \E r1 \in ConcRequests, r2 \in ConcRequests :
           plan = [c \in Callers |-> IF c = 1 THEN << r1 >> ELSE << r2 >>]

\* The target exits: exit_mm clears task->mm and drops the task's own
\* reference on the mm with mmput; the mm is torn down by whoever drops the
\* last reference.  The task itself stays in the table until it is reaped.
TargetExit(p) ==
    /\ task_mm[p]
    /\ task_mm' = [task_mm EXCEPT ![p] = FALSE]
    /\ mm_users' = PutMm(mm_users, p)
    /\ page_ref' = DropMapping(page_ref, mm_users, p)
    /\ UNCHANGED << plan, st, buf, mem, page_dirty, pid_count, task_usage,
                    mmap_readers, gh, lastWrite >>

NextConc ==
    \/ Next
    \/ \E p \in Pids : TargetExit(p)

SpecConc == InitConc /\ [][NextConc]_vars

\* ------------------------------------------------------------- C14
\* The task references calls still own on pid p
TaskRefsOwned(p) ==
    SumOver([c \in Callers |->
                IF st[c].tsk = p THEN gh[c].tskgets - gh[c].tskputs ELSE 0], Callers)

\* C14: when the target exits while a call owns a reference on its mm, the
\* mm stays alive until the call's mmput.  The task reference is owned only
\* between the lookup and get_task_mm; in every step that allocates for,
\* locks, pins from or puts the mm, the mm's user count is at least the
\* number of calls that own a reference, so it is at least 1 and the pages
\* are still mapped; the count never goes below zero.
C14_MmOutlivesExit ==
    /\ \A c \in Callers :
        /\ gh[c].tskgets - gh[c].tskputs = (IF st[c].pc = "getmm" THEN 1 ELSE 0)
        /\ st[c].pc \in ({"alloc"} \cup UsesMm) =>
               /\ mm_users[st[c].mm] >= 1
               /\ \A q \in Pages : page_ref[q] >= 1
    /\ \A p \in Pids :
        /\ mm_users[p] >= MmRefsOwned(p)
        /\ mm_users[p] >= 0
        /\ task_usage[p] = (IF TaskTable[p].task THEN 1 ELSE 0) + TaskRefsOwned(p)

\* The target has exited and a call is about to unlock and put the mm it
\* pinned pages from: its reference is the last one
C14_Witness ==
    \E c \in Callers :
        /\ st[c].pc = "unlock"
        /\ st[c].ret > 0
        /\ ~task_mm[st[c].mm]
        /\ mm_users[st[c].mm] = 1


\* ------------------------------------------------------------- C15
\* The reference a page has from being mapped in a live address space
MappingRef == IF \E p \in Pids : mm_users[p] > 0 THEN 1 ELSE 0

\* The calls that hold a pin on page q
Holders(q) == {c \in Callers : Held(c, q) > 0}

\* C15: with calls running concurrently on the same target and overlapping
\* pages, each call holds at most one pin on a page and puts only pages it
\* pinned; the references a page has beyond its mapping are one for each
\* call that holds it; a page held by some call has a positive count; and
\* when every call has returned the count of every page is what the
\* mapping alone gives, the initial value while the target lives.
C15_PinsAreAdditive ==
    \A q \in Pages :
        /\ \A c \in Callers : Held(c, q) \in {0, 1}
        /\ page_ref[q] = MappingRef + Cardinality(Holders(q))
        /\ Holders(q) # {} => page_ref[q] >= 1
        /\ (\A c \in Callers : Returned(c)) =>
               /\ page_ref[q] = MappingRef
               /\ (\A p \in Pids : task_mm[p] = TaskTable[p].mm) => page_ref[q] = 1

\* Both calls hold a pin on the same page at once, one in its loop and one
\* already releasing
C15_Witness ==
    \E q \in Pages :
        /\ Holders(q) = Callers
        /\ st[1].pc = "loop"
        /\ st[2].pc = "release"
        /\ page_ref[q] = MappingRef + 2


\* ------------------------------------------------------------- C16
\* C16: a call whose mmap_read_lock_killable was interrupted returns -EINTR;
\* it has asked for no pin and holds none, it has put the mm reference once
\* and freed the page array once, it never took the lock, and the mm's lock
\* and user count carry nothing of the call.
C16_InterruptedLock ==
    \A c \in Callers :
        Returned(c) /\ gh[c].path = "eintr" =>
            /\ st[c].retval = -EINTR
            /\ gh[c].gup_calls = 0
            /\ \A q \in Pages : gh[c].pins[q] = 0 /\ gh[c].puts[q] = 0
            /\ gh[c].mmgets = 1 /\ gh[c].mmputs = 1
            /\ gh[c].kmallocs = 1 /\ gh[c].kfrees = 1
            /\ gh[c].tskgets = 1 /\ gh[c].tskputs = 1
            /\ gh[c].locks = 0 /\ gh[c].unlocks = 0
            /\ mm_users[st[c].mm] = 1 /\ mmap_readers[st[c].mm] = 0
            /\ page_ref = [q \in Pages |-> 1]

\* An interrupted call for a window of more than one page has returned
C16_Witness ==
    \E c \in Callers :
        /\ Returned(c)
        /\ gh[c].path = "eintr"
        /\ st[c].retval = -EINTR
        /\ st[c].nr_pages > 1
        /\ gh[c].kfrees = 1


\* ------------------------------------------------------------- C17
\* The pages whose copy in the loop of call c succeeded
CopiedPages(c) ==
    {st[c].pages[i + 1] : i \in gh[c].mapped \ {gh[c].fault_at}}

\* C17: a page is dirty exactly when a FAR_WRITE copied into it with
\* success.  The mark is there from the step that copied, so before the
\* page is released; the page of a faulted copy is not marked by that copy;
\* a FAR_READ marks nothing.
C17_DirtyIffWritten ==
    /\ \A q \in Pages :
        page_dirty[q] <=>
            \E c \in Callers : st[c].cmd = FAR_WRITE /\ q \in CopiedPages(c)
    /\ \A c \in Callers :
        /\ st[c].cmd # FAR_WRITE => gh[c].dirtied = {}
        /\ gh[c].fault_at \notin gh[c].dirtied

\* A FAR_WRITE of several pages that faulted on its second page has
\* returned: the first page is dirty, the faulted page is not
C17_Witness ==
    \E c \in Callers :
        /\ Returned(c)
        /\ st[c].cmd = FAR_WRITE
        /\ gh[c].fault_at = 1
        /\ page_dirty[st[c].pages[1]]
        /\ ~page_dirty[st[c].pages[2]]


\* ------------------------------------------------------------- C18
\* The local-buffer bytes that pages 0 .. k-1 of a window take
BytesBefore(target_addr, k) ==
    IF k = 0 THEN 0 ELSE k * PAGE_SIZE - PageOff(target_addr)

\* C18: the loop handles the pinned pages in index order, so the pages
\* mapped so far are always an initial run of the indices, and it stops at
\* the first failure.  After a copy fault on page k the pages mapped are
\* 0 .. k, no byte of a later page was copied, the pages marked dirty are
\* among 0 .. k-1, and the cursor iter stands at the first byte of page k;
\* the call goes on to release and returns -EFAULT.
C18_StopsAtFirstFailure ==
    \A c \in Callers :
        /\ \E n \in 0 .. NumPages : gh[c].mapped = 0 .. (n - 1)
        /\ st[c].pc = "loop" => gh[c].mapped = 0 .. (st[c].i - 1)
        /\ gh[c].fault_at >= 0 =>
              LET k == gh[c].fault_at
              IN /\ st[c].pc \in {"release", "done", "idle"}
                 /\ st[c].ret = -EFAULT
                 /\ gh[c].mapped = 0 .. k
                 /\ \A t \in gh[c].touched : t[2] <= k
                 /\ gh[c].dirtied \subseteq 0 .. (k - 1)
                 /\ st[c].iter = BytesBefore(st[c].target_addr, k)
                 /\ \A t \in gh[c].touched :
                       t[2] = k => t[1] >= st[c].iter

\* A transfer of three pages or more that faulted on its second page, after
\* copying part of it, has returned
C18_Witness ==
    \E c \in Callers :
        /\ Returned(c)
        /\ gh[c].fault_at = 1
        /\ st[c].nr_pages >= 3
        /\ gh[c].mapped = {0, 1}
        /\ \E t \in gh[c].touched : t[2] = 1
        /\ st[c].retval = -EFAULT


\* ------------------------------------------------------------- C19
\* C19: every return that is not an error is a byte count from 0 to
\* min(requested len, MAX_RW_COUNT), so as a signed long it is not negative
\* and is no error code, for every leading offset and every pin count from
\* 0 to page_count.
C19_ReturnInRange ==
    \A c \in Callers :
        ReturnedNoError(c) =>
            /\ st[c].retval >= 0
            /\ st[c].retval <= Min(st[c].req_len, MAX_RW_COUNT)
            /\ ~IS_ERR_VALUE(st[c].retval)


\* ------------------------------------------------------------- C20
\* The paths that return before the transfer loop
EarlyPaths == {"eperm", "esrch", "enomem", "eintr", "pinerr"}

\* C20: frame.  A call that fails before the loop leaves the target's bytes
\* and the local buffer as they were; a FAR_READ changes no byte of the
\* target; a FAR_WRITE changes no byte of the local buffer; and whatever
\* the call does, the target bytes outside
\* [target_addr, target_addr + clamped len) and the local-buffer bytes from
\* index clamped len on are as they were.
C20_Frame ==
    \A c \in Callers :
        Called(c) =>
            LET ta == st[c].target_addr
                n == gh[c].clamped
                buf0 == BufInit(c, st[c].callno)
            IN /\ gh[c].path \in EarlyPaths => mem = MemInit /\ buf[c] = buf0
               /\ st[c].cmd = FAR_READ => mem = MemInit
               /\ st[c].cmd = FAR_WRITE => buf[c] = buf0
               /\ st[c].cmd \notin {FAR_READ, FAR_WRITE} =>
                      mem = MemInit /\ buf[c] = buf0
               /\ \A a \in DOMAIN mem :
                      (a < ta \/ a >= ta + n) => mem[a] = MemInit[a]
               /\ \A j \in BufIdx : j >= n => buf[c][j] = buf0[j]

\* A FAR_WRITE at an unaligned address has returned a byte count and the
\* target's bytes have changed, within its range only
C20_Witness ==
    \E c \in Callers :
        /\ Returned(c)
        /\ st[c].cmd = FAR_WRITE
        /\ PageOff(st[c].target_addr) > 0
        /\ st[c].retval > PAGE_SIZE
        /\ mem[st[c].target_addr] # MemInit[st[c].target_addr]
        /\ mem[st[c].target_addr - 1] = MemInit[st[c].target_addr - 1]

====
